---------------------------- MODULE Spec2Model ----------------------------
(***************************************************************************)
(* A model of automation.py: the eight file-processing tasks, the path     *)
(* guard, and the two dispatcher endpoints run_task and get_task_output.   *)
(*                                                                         *)
(* Text is a sequence of tokens.  The token "\n" is the line terminator;   *)
(* every other token stands for a newline-free piece of text (a character  *)
(* or a word).  A path is a sequence of segments, a segment a sequence of  *)
(* tokens (so that a suffix such as ".log" is a token of its own).         *)
(***************************************************************************)
EXTENDS Integers, Sequences, FiniteSets, TLC

VARIABLES
    fs,      \* the file system under the data root: path -> file
    resp,    \* the response of the last request
    last,    \* the last step: [kind, task]
    acc,     \* the guard calls and file accesses of the last request, in order
    calls,   \* the task functions the last request invoked, in order
    pre,     \* the file system as the last request found it
    thr,     \* the request threads of the interleaved specification
    torn     \* output files whose last overwrite overlapped another one

vars == <<fs, resp, last, acc, calls, pre, thr, torn>>

(***************************************************************************)
(* Bounds of the model.                                                    *)
(***************************************************************************)
\* the largest number of .log files the environment puts into data/logs
MaxLogs == 11

(***************************************************************************)
(* Generic helpers.                                                        *)
(***************************************************************************)
NL == "\n"
Whitespace == {" ", NL}

Min(a, b) == IF a < b THEN a ELSE b

\* sep.join(items), items a sequence of token sequences
RECURSIVE JoinWith(_, _)
JoinWith(sep, items) ==
    IF items = <<>> THEN <<>>
    ELSE IF Len(items) = 1 THEN items[1]
    ELSE items[1] \o sep \o JoinWith(sep, Tail(items))

\* str.strip(): leading and trailing whitespace removed
RECURSIVE LStrip(_)
LStrip(s) == IF s # <<>> /\ Head(s) \in Whitespace THEN LStrip(Tail(s)) ELSE s

RECURSIVE RStrip(_)
RStrip(s) ==
    IF s # <<>> /\ s[Len(s)] \in Whitespace THEN RStrip(SubSeq(s, 1, Len(s) - 1)) ELSE s

Strip(s) == RStrip(LStrip(s))

\* index of the first "\n" of s, or 0
RECURSIVE FirstNL(_, _)
FirstNL(s, i) ==
    IF i > Len(s) THEN 0 ELSE IF s[i] = NL THEN i ELSE FirstNL(s, i + 1)

\* f.readline(): the first line with its terminator ("" at end of file)
ReadLine(s) ==
    LET k == FirstNL(s, 1) IN IF k = 0 THEN s ELSE SubSeq(s, 1, k)

\* iteration over a text file / f.readlines(): the lines, terminators kept
RECURSIVE ReadLines(_)
ReadLines(s) ==
    IF s = <<>> THEN <<>>
    ELSE LET k == FirstNL(s, 1)
         IN IF k = 0 THEN <<s>>
            ELSE <<SubSeq(s, 1, k)>> \o ReadLines(SubSeq(s, k + 1, Len(s)))

\* str(n) for a natural number: its decimal digits
DigitTok == <<"0", "1", "2", "3", "4", "5", "6", "7", "8", "9">>
Digits == {DigitTok[i] : i \in 1..10}

RECURSIVE Str(_)
Str(n) == IF n < 10 THEN <<DigitTok[n + 1]>> ELSE Str(n \div 10) \o <<DigitTok[(n % 10) + 1]>>

(***************************************************************************)
(* Paths and files.                                                        *)
(***************************************************************************)
DATA_DIR == << <<"data">> >>

\* os.path.join(a, b) for a relative b, given as its segments
Join(a, b) == a \o b

\* str.startswith on paths: DATA_DIR ends in "/", so a path that starts with
\* it has the segments of DATA_DIR followed by something
StartsWith(p, prefix) ==
    /\ Len(p) > Len(prefix)
    /\ SubSeq(p, 1, Len(prefix)) = prefix

\* str.endswith on a file name whose suffix is its last token
EndsWith(name, suffix) == name # <<>> /\ name[Len(name)] = suffix

Absent == [exists |-> FALSE, ok |-> FALSE, data |-> <<>>]
File(d) == [exists |-> TRUE, ok |-> TRUE, data |-> d]
\* a file that exists and cannot be decoded as what it should be (malformed
\* JSON, bytes that are no database, no image, no UTF-8 text, no directory)
Corrupt == [exists |-> TRUE, ok |-> FALSE, data |-> <<>>]

dates_txt == Join(DATA_DIR, << <<"dates", ".txt">> >>)
dates_wednesdays_txt == Join(DATA_DIR, << <<"dates-wednesdays", ".txt">> >>)
contacts_json == Join(DATA_DIR, << <<"contacts", ".json">> >>)
contacts_sorted_json == Join(DATA_DIR, << <<"contacts-sorted", ".json">> >>)
logs_dir == Join(DATA_DIR, << <<"logs">> >>)
logs_recent_txt == Join(DATA_DIR, << <<"logs-recent", ".txt">> >>)
docs_dir == Join(DATA_DIR, << <<"docs">> >>)
docs_index_json == Join(DATA_DIR, << <<"docs">>, <<"index", ".json">> >>)
email_txt == Join(DATA_DIR, << <<"email", ".txt">> >>)
email_sender_txt == Join(DATA_DIR, << <<"email-sender", ".txt">> >>)
credit_card_png == Join(DATA_DIR, << <<"credit-card", ".png">> >>)
credit_card_txt == Join(DATA_DIR, << <<"credit-card", ".txt">> >>)
comments_txt == Join(DATA_DIR, << <<"comments", ".txt">> >>)
comments_similar_txt == Join(DATA_DIR, << <<"comments-similar", ".txt">> >>)
ticket_sales_db == Join(DATA_DIR, << <<"ticket-sales", ".db">> >>)
ticket_sales_gold_txt == Join(DATA_DIR, << <<"ticket-sales-gold", ".txt">> >>)

InputPaths ==
    {dates_txt, contacts_json, logs_dir, docs_dir, email_txt, credit_card_png,
     comments_txt, ticket_sales_db}

OutputPaths ==
    {dates_wednesdays_txt, contacts_sorted_json, logs_recent_txt, docs_index_json,
     email_sender_txt, credit_card_txt, comments_similar_txt, ticket_sales_gold_txt}

Paths == InputPaths \cup OutputPaths

(***************************************************************************)
(* The record of one task execution: the guard calls and file accesses it  *)
(* made (acc), the message of the exception it raised ("" for none), and   *)
(* its effects on the file system, in order (eff).                         *)
(***************************************************************************)
NoExc == ""
Exec(a, e, f) == [acc |-> a, exc |-> e, eff |-> f]

Guard(p) == [op |-> "guard", path |-> p]
Exists(p) == [op |-> "exists", path |-> p]
Read(p) == [op |-> "read", path |-> p]
Write(p) == [op |-> "write", path |-> p]
List(p) == [op |-> "list", path |-> p]
Stat(p) == [op |-> "stat", path |-> p]
Connect(p) == [op |-> "connect", path |-> p]

\* open(path, "w") ... write(data): the file is truncated, then data written
WriteEff(p, d) == [kind |-> "write", path |-> p, data |-> d]
\* a file created empty as a side effect
CreateEff(p) == [kind |-> "create", path |-> p, data |-> <<>>]

\* enforce_security: TRUE when the call returns, FALSE when it raises
enforce_security(file_path) == StartsWith(file_path, DATA_DIR)

PermissionError == "Access denied"


(***************************************************************************)
(* A3: count_wednesdays and the date parser.                               *)
(***************************************************************************)
date_formats ==
    <<"%Y-%m-%d", "%d/%m/%Y", "%m-%d-%Y", "%Y/%m/%d",
      "%d %b %Y", "%d %B %Y", "%b %d, %Y", "%B %d, %Y",
      "%Y-%m-%d %H:%M:%S", "%d/%m/%Y %H:%M", "%m-%d-%Y %I:%M %p">>

\* datetime.strptime on the date strings of the model: the formats that accept
\* the string and the calendar date they read (any other string: ValueError)
StrptimeTable ==
    {[s |-> "2024-01-03", fmts |-> {"%Y-%m-%d"}, y |-> 2024, m |-> 1, d |-> 3],
     [s |-> "03/01/2024", fmts |-> {"%d/%m/%Y"}, y |-> 2024, m |-> 1, d |-> 3],
     [s |-> "01-04-2024", fmts |-> {"%m-%d-%Y"}, y |-> 2024, m |-> 1, d |-> 4],
     [s |-> "2024/02/29", fmts |-> {"%Y/%m/%d"}, y |-> 2024, m |-> 2, d |-> 29],
     [s |-> "01 May 2024", fmts |-> {"%d %b %Y", "%d %B %Y"}, y |-> 2024, m |-> 5, d |-> 1],
     [s |-> "Jan 10, 2024", fmts |-> {"%b %d, %Y"}, y |-> 2024, m |-> 1, d |-> 10],
     [s |-> "2023-12-31 23:59:59", fmts |-> {"%Y-%m-%d %H:%M:%S"}, y |-> 2023, m |-> 12, d |-> 31]}

None == [none |-> TRUE]

strptime(date_str, fmt) ==
    LET hits == {r \in StrptimeTable : date_str = <<r.s>> /\ fmt \in r.fmts}
    IN IF hits = {} THEN None
       ELSE LET r == CHOOSE x \in hits : TRUE IN [none |-> FALSE, y |-> r.y, m |-> r.m, d |-> r.d]

RECURSIVE parse_from(_, _)
parse_from(date_str, i) ==
    IF i > Len(date_formats) THEN None
    ELSE LET r == strptime(date_str, date_formats[i])
         IN IF r.none THEN parse_from(date_str, i + 1) ELSE r

parse_date(date_str) == parse_from(Strip(date_str), 1)

\* datetime.weekday(): Monday is 0 (days counted from 1970-01-01, a Thursday)
weekday(dt) ==
    LET y == IF dt.m <= 2 THEN dt.y - 1 ELSE dt.y
        era == y \div 400
        yoe == y - era * 400
        mp == IF dt.m > 2 THEN dt.m - 3 ELSE dt.m + 9
        doy == (153 * mp + 2) \div 5 + dt.d - 1
        doe == yoe * 365 + yoe \div 4 - yoe \div 100 + doy
        days == era * 146097 + doe - 719468
    IN (days + 3) % 7

RECURSIVE wednesday_count(_)
wednesday_count(dates) ==
    IF dates = <<>> THEN 0
    ELSE LET parsed_date == parse_date(Head(dates))
         IN (IF ~parsed_date.none /\ weekday(parsed_date) = 2 THEN 1 ELSE 0)
            + wednesday_count(Tail(dates))

count_wednesdays(f) ==
    LET input_file == dates_txt
        output_file == dates_wednesdays_txt
        g1 == <<Guard(input_file)>>
        g2 == g1 \o <<Guard(output_file)>>
        a3 == g2 \o <<Exists(input_file)>>
    IN IF ~enforce_security(input_file) THEN Exec(g1, PermissionError, <<>>)
       ELSE IF ~enforce_security(output_file) THEN Exec(g2, PermissionError, <<>>)
       ELSE IF ~f[input_file].exists
            THEN Exec(a3 \o <<Write(output_file)>>, NoExc,
                      <<WriteEff(output_file, <<"0", NL>>)>>)
       ELSE IF ~f[input_file].ok
            THEN Exec(a3 \o <<Read(input_file)>>, "UnicodeDecodeError", <<>>)
       ELSE LET dates == ReadLines(f[input_file].data)
            IN Exec(a3 \o <<Read(input_file), Write(output_file)>>, NoExc,
                    <<WriteEff(output_file, Str(wednesday_count(dates)) \o <<NL>>)>>)

(***************************************************************************)
(* A4: sort_contacts.  A contact is a record; names are numbers standing   *)
(* for strings in their order.                                             *)
(***************************************************************************)
\* A JSON document is a sequence of tokens: brackets, and between them the
\* items.  json.load: the items of a well-formed document.
JsonTok(t) == [tok |-> t]
json_dump(open, items, close) == <<JsonTok(open)>> \o items \o <<JsonTok(close)>>

json_ok(d, open, close) ==
    Len(d) >= 2 /\ d[1] = JsonTok(open) /\ d[Len(d)] = JsonTok(close)

json_load(d) == SubSeq(d, 2, Len(d) - 1)

HasKeys(x) == {"last_name", "first_name"} \subseteq DOMAIN x

\* (a.last_name, a.first_name) <= (b.last_name, b.first_name)
KeyLeq(a, b) ==
    \/ a.last_name < b.last_name
    \/ a.last_name = b.last_name /\ a.first_name <= b.first_name

\* insert x after the elements whose key is <= its key (keeps sorted() stable)
RECURSIVE InsertSorted(_, _)
InsertSorted(x, s) ==
    IF s = <<>> THEN <<x>>
    ELSE IF KeyLeq(Head(s), x) THEN <<Head(s)>> \o InsertSorted(x, Tail(s))
    ELSE <<x>> \o s

RECURSIVE SortedFrom(_, _)
SortedFrom(contacts, done) ==
    IF contacts = <<>> THEN done
    ELSE SortedFrom(Tail(contacts), InsertSorted(Head(contacts), done))

sorted_contacts(contacts) == SortedFrom(contacts, <<>>)

sort_contacts(f) ==
    LET input_file == contacts_json
        output_file == contacts_sorted_json
        g1 == <<Guard(input_file)>>
        g2 == g1 \o <<Guard(output_file)>>
        a3 == g2 \o <<Read(input_file)>>
    IN IF ~enforce_security(input_file) THEN Exec(g1, PermissionError, <<>>)
       ELSE IF ~enforce_security(output_file) THEN Exec(g2, PermissionError, <<>>)
       ELSE IF ~f[input_file].exists THEN Exec(a3, "FileNotFoundError", <<>>)
       ELSE IF ~f[input_file].ok THEN Exec(a3, "UnicodeDecodeError", <<>>)
       ELSE IF ~json_ok(f[input_file].data, "[", "]") THEN Exec(a3, "JSONDecodeError", <<>>)
       ELSE LET contacts == json_load(f[input_file].data)
            IN IF \E i \in 1..Len(contacts) : ~HasKeys(contacts[i])
               THEN Exec(a3, "KeyError", <<>>)
               ELSE Exec(a3 \o <<Write(output_file)>>, NoExc,
                         <<WriteEff(output_file, json_dump("[", sorted_contacts(contacts), "]"))>>)

(***************************************************************************)
(* A5: recent_logs.  A directory's data is its listing, in os.listdir      *)
(* order: entries [name, mtime, ok, data].                                 *)
(***************************************************************************)
RecentLimit == 10

\* os.listdir(d) filtered by f.endswith(suffix)
RECURSIVE Filtered(_, _)
Filtered(entries, suffix) ==
    IF entries = <<>> THEN <<>>
    ELSE (IF EndsWith(Head(entries).name, suffix) THEN <<Head(entries)>> ELSE <<>>)
         \o Filtered(Tail(entries), suffix)

\* sorted(..., key=os.path.getmtime, reverse=True): descending, and elements
\* with equal keys keep their original order
RECURSIVE InsertByMtime(_, _)
InsertByMtime(x, s) ==
    IF s = <<>> THEN <<x>>
    ELSE IF Head(s).mtime >= x.mtime THEN <<Head(s)>> \o InsertByMtime(x, Tail(s))
    ELSE <<x>> \o s

RECURSIVE SortedByMtime(_, _)
SortedByMtime(entries, done) ==
    IF entries = <<>> THEN done
    ELSE SortedByMtime(Tail(entries), InsertByMtime(Head(entries), done))

log_files(entries) ==
    LET all == SortedByMtime(Filtered(entries, ".log"), <<>>)
    IN SubSeq(all, 1, Min(Len(all), RecentLimit))

\* the loop over log_files: the accesses made, the exception raised, and
\* first_lines
RECURSIVE ReadFirstLines(_, _, _)
ReadFirstLines(logs, a, first_lines) ==
    IF logs = <<>> THEN [acc |-> a, exc |-> NoExc, lines |-> first_lines]
    ELSE LET log == Join(logs_dir, <<Head(logs).name>>)
         IN IF ~enforce_security(log)
            THEN [acc |-> a \o <<Guard(log)>>, exc |-> PermissionError, lines |-> first_lines]
            ELSE IF ~Head(logs).ok
            THEN [acc |-> a \o <<Guard(log), Read(log)>>, exc |-> "UnicodeDecodeError",
                  lines |-> first_lines]
            ELSE ReadFirstLines(Tail(logs), a \o <<Guard(log), Read(log)>>,
                                first_lines \o <<Strip(ReadLine(Head(logs).data))>>)

recent_logs(f) ==
    LET output_file == logs_recent_txt
        g1 == <<Guard(output_file)>>
        a2 == g1 \o <<List(logs_dir)>>
    IN IF ~enforce_security(output_file) THEN Exec(g1, PermissionError, <<>>)
       ELSE IF ~f[logs_dir].exists THEN Exec(a2, "FileNotFoundError", <<>>)
       ELSE IF ~f[logs_dir].ok THEN Exec(a2, "NotADirectoryError", <<>>)
       ELSE LET listed == Filtered(f[logs_dir].data, ".log")
                a3 == a2 \o [i \in 1..Len(listed) |-> Stat(Join(logs_dir, <<listed[i].name>>))]
                r == ReadFirstLines(log_files(f[logs_dir].data), a3, <<>>)
            IN IF r.exc # NoExc THEN Exec(r.acc, r.exc, <<>>)
               ELSE Exec(r.acc \o <<Write(output_file)>>, NoExc,
                         <<WriteEff(output_file, JoinWith(<<NL>>, r.lines) \o <<NL>>)>>)

(***************************************************************************)
(* A6: index_markdown.                                                     *)
(***************************************************************************)
\* line.startswith("# ")
IsH1(line) == Len(line) >= 2 /\ line[1] = "#" /\ line[2] = " "

\* the title of the first line that starts with "# ", as a sequence holding
\* it, or the empty sequence when no line does
RECURSIVE FirstH1(_)
FirstH1(lines) ==
    IF lines = <<>> THEN <<>>
    ELSE IF IsH1(Head(lines)) THEN <<Strip(SubSeq(Head(lines), 3, Len(Head(lines))))>>
    ELSE FirstH1(Tail(lines))

\* the loop over os.listdir(docs_dir): accesses, exception, and the index (a
\* dict in insertion order: a sequence of [file, title])
RECURSIVE IndexDocs(_, _, _)
IndexDocs(entries, a, index) ==
    IF entries = <<>> THEN [acc |-> a, exc |-> NoExc, index |-> index]
    ELSE LET file == Head(entries).name
             file_path == Join(docs_dir, <<file>>)
         IN IF ~EndsWith(file, ".md") THEN IndexDocs(Tail(entries), a, index)
            ELSE IF ~enforce_security(file_path)
            THEN [acc |-> a \o <<Guard(file_path)>>, exc |-> PermissionError, index |-> index]
            ELSE IF ~Head(entries).ok
            THEN [acc |-> a \o <<Guard(file_path), Read(file_path)>>,
                  exc |-> "UnicodeDecodeError", index |-> index]
            ELSE LET h == FirstH1(ReadLines(Head(entries).data))
                 IN IndexDocs(Tail(entries), a \o <<Guard(file_path), Read(file_path)>>,
                              IF h = <<>> THEN index
                              ELSE index \o <<[file |-> file, title |-> h[1]]>>)

index_markdown(f) ==
    LET output_file == docs_index_json
        g1 == <<Guard(output_file)>>
        a2 == g1 \o <<List(docs_dir)>>
    IN IF ~enforce_security(output_file) THEN Exec(g1, PermissionError, <<>>)
       ELSE IF ~f[docs_dir].exists THEN Exec(a2, "FileNotFoundError", <<>>)
       ELSE IF ~f[docs_dir].ok THEN Exec(a2, "NotADirectoryError", <<>>)
       ELSE LET r == IndexDocs(f[docs_dir].data, a2, <<>>)
            IN IF r.exc # NoExc THEN Exec(r.acc, r.exc, <<>>)
               ELSE Exec(r.acc \o <<Write(output_file)>>, NoExc,
                         <<WriteEff(output_file, json_dump("{", r.index, "}"))>>)

(***************************************************************************)
(* A7: email_sender.                                                       *)
(***************************************************************************)
NoNL(text, i, j) == \A k \in i..j : text[k] # NL

\* re.search(r"From:.*?<(.*?)>", text): "." matches no newline, both
\* repetitions are lazy, the leftmost start wins.  The result is a sequence
\* holding group(1), or the empty sequence for no match.
email_search(text) ==
    LET n == Len(text)
        Ok(i, j, k) ==
            /\ text[i] = "From:" /\ text[j] = "<" /\ text[k] = ">"
            /\ NoNL(text, i + 1, k - 1)
        starts == {i \in 1..n : \E j \in (i + 1)..n : \E k \in (j + 1)..n : Ok(i, j, k)}
    IN IF starts = {} THEN <<>>
       ELSE LET i == CHOOSE x \in starts : \A y \in starts : x <= y
                js == {j \in (i + 1)..n : \E k \in (j + 1)..n : Ok(i, j, k)}
                j == CHOOSE x \in js : \A y \in js : x <= y
                ks == {k \in (j + 1)..n : Ok(i, j, k)}
                k == CHOOSE x \in ks : \A y \in ks : x <= y
            IN <<SubSeq(text, j + 1, k - 1)>>

email_sender(f) ==
    LET input_file == email_txt
        output_file == email_sender_txt
        g1 == <<Guard(input_file)>>
        g2 == g1 \o <<Guard(output_file)>>
        a3 == g2 \o <<Exists(input_file)>>
    IN IF ~enforce_security(input_file) THEN Exec(g1, PermissionError, <<>>)
       ELSE IF ~enforce_security(output_file) THEN Exec(g2, PermissionError, <<>>)
       ELSE IF ~f[input_file].exists
            THEN Exec(a3 \o <<Write(output_file)>>, NoExc, <<WriteEff(output_file, <<NL>>)>>)
       ELSE IF ~f[input_file].ok
            THEN Exec(a3 \o <<Read(input_file)>>, "UnicodeDecodeError", <<>>)
       ELSE LET match == email_search(Strip(f[input_file].data))
                extracted_email == IF match # <<>> THEN match[1] ELSE <<>>
            IN Exec(a3 \o <<Read(input_file), Write(output_file)>>, NoExc,
                    <<WriteEff(output_file, extracted_email \o <<NL>>)>>)

(***************************************************************************)
(* A8: extract_credit_card.  An image's data is the text the OCR engine    *)
(* reads from it.                                                          *)
(***************************************************************************)
CardMin == 13
CardMax == 16
Seps == {" ", "-"}
Letters == {"x", "_"}
WordChars == Digits \cup Letters

\* the positions of the digits matched by repetitions of \d[ -]*? from i on
RECURSIVE DigitChain(_, _)
DigitChain(text, i) ==
    IF i > Len(text) \/ text[i] \notin Digits THEN <<>>
    ELSE LET SkipSeps[j \in 1..(Len(text) + 1)] ==
                 IF j <= Len(text) /\ text[j] \in Seps THEN SkipSeps[j + 1] ELSE j
         IN <<i>> \o DigitChain(text, SkipSeps[i + 1])

\* re.search(r"\b(?:\d[ -]*?){13,16}\b", text): the matched text in a
\* sequence, or the empty sequence for no match
card_search(text) ==
    LET n == Len(text)
        Boundary(i) ==   \* \b between text[i] and text[i+1]
            (i >= 1 /\ i <= n /\ text[i] \in WordChars)
                # (i + 1 <= n /\ text[i + 1] \in WordChars)
        Counts(i) ==
            LET chain == DigitChain(text, i)
            IN {k \in CardMin..Min(CardMax, Len(chain)) : Boundary(chain[k])}
        starts == {i \in 1..n : text[i] \in Digits /\ Boundary(i - 1) /\ Counts(i) # {}}
    IN IF starts = {} THEN <<>>
       ELSE LET i == CHOOSE x \in starts : \A y \in starts : x <= y
                k == CHOOSE x \in Counts(i) : \A y \in Counts(i) : x >= y
            IN <<SubSeq(text, i, DigitChain(text, i)[k])>>

\* re.sub(r"\D", "", s)
OnlyDigits(s) == SelectSeq(s, LAMBDA c : c \in Digits)

extract_credit_card(f) ==
    LET input_image == credit_card_png
        output_file == credit_card_txt
        g1 == <<Guard(input_image)>>
        g2 == g1 \o <<Guard(output_file)>>
        a3 == g2 \o <<Read(input_image)>>
    IN IF ~enforce_security(input_image) THEN Exec(g1, PermissionError, <<>>)
       ELSE IF ~enforce_security(output_file) THEN Exec(g2, PermissionError, <<>>)
       ELSE IF ~f[input_image].exists THEN Exec(a3, "FileNotFoundError", <<>>)
       ELSE IF ~f[input_image].ok THEN Exec(a3, "UnidentifiedImageError", <<>>)
       ELSE LET text == f[input_image].data
                match == card_search(text)
                extracted_card_number == IF match # <<>> THEN OnlyDigits(match[1]) ELSE <<>>
            IN Exec(a3 \o <<Write(output_file)>>, NoExc,
                    <<WriteEff(output_file, extracted_card_number \o <<NL>>)>>)

(***************************************************************************)
(* A9: similar_comments.  The embedding model and the cosine similarity    *)
(* are external: similarity stands for 100 * cos of two comments.          *)
(***************************************************************************)
Tokens(c) == {c[i] : i \in 1..Len(c)}

similarity(c1, c2) ==
    IF c1 = c2 THEN 100 ELSE 30 * Cardinality(Tokens(c1) \cap Tokens(c2)) - 10

\* [line.strip() for line in f if line.strip()]
RECURSIVE NonEmptyStripped(_)
NonEmptyStripped(lines) ==
    IF lines = <<>> THEN <<>>
    ELSE (IF Strip(Head(lines)) # <<>> THEN <<Strip(Head(lines))>> ELSE <<>>)
         \o NonEmptyStripped(Tail(lines))

\* np.fill_diagonal(similarities, 0); np.unravel_index(np.argmax(...)): the
\* first maximum in row-major order
max_idx(comments) ==
    LET n == Len(comments)
        Sim(i, j) == IF i = j THEN 0 ELSE similarity(comments[i], comments[j])
        Cells == (1..n) \X (1..n)
        Before(a, b) == a[1] < b[1] \/ (a[1] = b[1] /\ a[2] <= b[2])
        best == {a \in Cells : \A b \in Cells : Sim(a[1], a[2]) >= Sim(b[1], b[2])}
    IN CHOOSE a \in best : \A b \in best : Before(a, b)

\* similar_comments with the early return at "fewer than 1" instead of
\* "fewer than 2"
similar_comments_OffByOne(f) ==
    LET input_file == comments_txt
        output_file == comments_similar_txt
        a3 == <<Guard(input_file), Guard(output_file), Read(input_file)>>
    IN IF ~f[input_file].exists THEN Exec(a3, "FileNotFoundError", <<>>)
       ELSE IF ~f[input_file].ok THEN Exec(a3, "UnicodeDecodeError", <<>>)
       ELSE LET comments == NonEmptyStripped(ReadLines(f[input_file].data))
            IN IF Len(comments) < 1 THEN Exec(a3, NoExc, <<>>)
               ELSE LET idx == max_idx(comments)
                    IN Exec(a3 \o <<Write(output_file)>>, NoExc,
                            <<WriteEff(output_file, comments[idx[1]] \o <<NL>>
                                                    \o comments[idx[2]] \o <<NL>>)>>)

similar_comments(f) ==
    LET input_file == comments_txt
        output_file == comments_similar_txt
        g1 == <<Guard(input_file)>>
        g2 == g1 \o <<Guard(output_file)>>
        a3 == g2 \o <<Read(input_file)>>
    IN IF ~enforce_security(input_file) THEN Exec(g1, PermissionError, <<>>)
       ELSE IF ~enforce_security(output_file) THEN Exec(g2, PermissionError, <<>>)
       ELSE IF ~f[input_file].exists THEN Exec(a3, "FileNotFoundError", <<>>)
       ELSE IF ~f[input_file].ok THEN Exec(a3, "UnicodeDecodeError", <<>>)
       ELSE LET comments == NonEmptyStripped(ReadLines(f[input_file].data))
            IN IF Len(comments) < 2 THEN Exec(a3, NoExc, <<>>)
               ELSE LET idx == max_idx(comments)
                        comment1 == comments[idx[1]]
                        comment2 == comments[idx[2]]
                    IN Exec(a3 \o <<Write(output_file)>>, NoExc,
                            <<WriteEff(output_file, comment1 \o <<NL>> \o comment2 \o <<NL>>)>>)

(***************************************************************************)
(* A10: total_gold_sales.  A database's data is its tables: the empty      *)
(* sequence for a database without tables, else one [table, rows].         *)
(***************************************************************************)
\* SELECT SUM(units * price) FROM tickets WHERE type = 'Gold', then "or 0"
RECURSIVE gold_sum(_)
gold_sum(rows) ==
    IF rows = <<>> THEN 0
    ELSE (IF Head(rows).type = "Gold" THEN Head(rows).units * Head(rows).price ELSE 0)
         + gold_sum(Tail(rows))

total_gold_sales(f) ==
    LET db_file == ticket_sales_db
        output_file == ticket_sales_gold_txt
        g1 == <<Guard(db_file)>>
        g2 == g1 \o <<Guard(output_file)>>
        a3 == g2 \o <<Connect(db_file)>>
        \* sqlite3.connect creates the database file when there is none
        created == IF f[db_file].exists THEN <<>> ELSE <<CreateEff(db_file)>>
    IN IF ~enforce_security(db_file) THEN Exec(g1, PermissionError, <<>>)
       ELSE IF ~enforce_security(output_file) THEN Exec(g2, PermissionError, <<>>)
       ELSE IF ~f[db_file].exists THEN Exec(a3, "no such table: tickets", created)
       ELSE IF ~f[db_file].ok THEN Exec(a3, "file is not a database", <<>>)
       ELSE IF \A i \in 1..Len(f[db_file].data) : f[db_file].data[i].table # "tickets"
            THEN Exec(a3, "no such table: tickets", <<>>)
       ELSE LET t == CHOOSE x \in Tokens(f[db_file].data) : x.table = "tickets"
                total_sales == gold_sum(t.rows)
            IN Exec(a3 \o <<Write(output_file)>>, NoExc,
                    <<WriteEff(output_file, Str(total_sales) \o <<NL>>)>>)

(***************************************************************************)
(* The dispatcher.                                                         *)
(***************************************************************************)
TaskNames ==
    {"count_wednesdays", "sort_contacts", "recent_logs", "index_markdown",
     "email_sender", "extract_credit_card", "similar_comments", "total_gold_sales"}

\* task_map[task]()
task_map(task, f) ==
    CASE task = "count_wednesdays" -> count_wednesdays(f)
      [] task = "sort_contacts" -> sort_contacts(f)
      [] task = "recent_logs" -> recent_logs(f)
      [] task = "index_markdown" -> index_markdown(f)
      [] task = "email_sender" -> email_sender(f)
      [] task = "extract_credit_card" -> extract_credit_card(f)
      [] task = "similar_comments" -> similar_comments(f)
      [] task = "total_gold_sales" -> total_gold_sales(f)

output_map ==
    [task \in TaskNames |->
        CASE task = "count_wednesdays" -> << <<"dates-wednesdays", ".txt">> >>
          [] task = "sort_contacts" -> << <<"contacts-sorted", ".json">> >>
          [] task = "recent_logs" -> << <<"logs-recent", ".txt">> >>
          [] task = "index_markdown" -> << <<"docs">>, <<"index", ".json">> >>
          [] task = "email_sender" -> << <<"email-sender", ".txt">> >>
          [] task = "extract_credit_card" -> << <<"credit-card", ".txt">> >>
          [] task = "similar_comments" -> << <<"comments-similar", ".txt">> >>
          [] task = "total_gold_sales" -> << <<"ticket-sales-gold", ".txt">> >>]

Response(code, status, detail, output) ==
    [code |-> code, status |-> status, detail |-> detail, output |-> output]

NoResponse == Response(0, "", "", <<>>)

\* run_task with a default task in place of the 400 answer
run_task_Default(task, f) ==
    LET e == IF task \in TaskNames THEN task_map(task, f) ELSE count_wednesdays(f)
    IN [resp |-> IF e.exc = NoExc THEN Response(200, "success", "", <<>>)
                 ELSE Response(500, "", e.exc, <<>>),
        calls |-> <<task>>, exec |-> e]

\* run_task that answers success whether or not the task function raised
run_task_Swallow(task, f) ==
    IF task \notin TaskNames
    THEN [resp |-> Response(400, "", "Invalid task", <<>>),
          calls |-> <<>>, exec |-> Exec(<<>>, NoExc, <<>>)]
    ELSE [resp |-> Response(200, "success", "", <<>>),
          calls |-> <<task>>, exec |-> task_map(task, f)]

\* run_task: the response, and the execution of the task function it called
run_task(task, f) ==
    IF task \notin TaskNames
    THEN [resp |-> Response(400, "", "Invalid task", <<>>),
          calls |-> <<>>, exec |-> Exec(<<>>, NoExc, <<>>)]
    ELSE LET e == task_map(task, f)
         IN [resp |-> IF e.exc = NoExc THEN Response(200, "success", "", <<>>)
                      ELSE Response(500, "", e.exc, <<>>),
             calls |-> <<task>>, exec |-> e]

\* get_task_output: read_output_file is defined nowhere, so the call in the
\* try block raises NameError before any file is opened
NameError == "name 'read_output_file' is not defined"

get_task_output(task, f) ==
    IF task \notin DOMAIN output_map
    THEN [resp |-> Response(400, "", "Invalid task", <<>>), exec |-> Exec(<<>>, NoExc, <<>>)]
    ELSE LET output_file == Join(DATA_DIR, output_map[task])
         IN [resp |-> Response(500, "", NameError, <<>>),
             exec |-> Exec(<<>>, NameError, <<>>)]

(***************************************************************************)
(* The effects of an execution on the file system.                         *)
(***************************************************************************)
\* open(path, "r+") in place of "w": an existing file keeps its content
Truncate_Keep(f, p) == IF f[p].exists THEN f ELSE [f EXCEPT ![p] = File(<<>>)]

\* open(path, "w"): the file is created or truncated
Truncate(f, p) == [f EXCEPT ![p] = File(<<>>)]

\* the buffered data written at offset 0 when the file is closed: it replaces
\* the first Len(d) tokens of whatever the file holds by then
Overlay(old, d) ==
    IF Len(old) <= Len(d) THEN d ELSE d \o SubSeq(old, Len(d) + 1, Len(old))

Flush(f, p, d) == [f EXCEPT ![p] = File(Overlay(f[p].data, d))]

\* open(path, "a") in place of "w": the data is appended
ApplyEff_Append(f, e) ==
    [f EXCEPT ![e.path] = File(f[e.path].data \o e.data)]

ApplyEff(f, e) ==
    IF e.kind = "create" THEN Truncate(f, e.path)
    ELSE Flush(Truncate(f, e.path), e.path, e.data)

RECURSIVE ApplyAll(_, _)
ApplyAll(f, effs) ==
    IF effs = <<>> THEN f ELSE ApplyAll(ApplyEff(f, Head(effs)), Tail(effs))

(***************************************************************************)
(* The inputs the environment provides.                                    *)
(***************************************************************************)
DatesInputs ==
    {Absent, Corrupt, File(<<>>),
     File(<<"2024-01-03", NL, " ", "03/01/2024", " ", NL, "junk", NL, "01-04-2024", NL,
            "01 May 2024", NL, "2023-12-31 23:59:59">>)}

ContactsInputs ==
    {Absent, File(<<>>), File(json_dump("[", <<>>, "]")),
     File(<<JsonTok("["), [last_name |-> 1, first_name |-> 1, id |-> 1]>>),
     File(json_dump("[", <<[last_name |-> 2, first_name |-> 1, id |-> 1],
                           [last_name |-> 1, first_name |-> 2, id |-> 2],
                           [last_name |-> 2, first_name |-> 1, id |-> 3],
                           [last_name |-> 1, first_name |-> 1, id |-> 4]>>, "]")),
     File(json_dump("[", <<[last_name |-> 1, first_name |-> 1, id |-> 1],
                           [first_name |-> 1, id |-> 2]>>, "]"))}

LogName(i) == <<"app">> \o Str(i) \o <<".log">>
LogText(i) == <<" ", "line">> \o Str(i) \o <<" ", NL, "more", NL>>
LogMtime(order, i) == IF order = "asc" THEN 100 + i ELSE (7 * i) % 13

LogListing(n, order) ==
    [i \in 1..n |-> [name |-> LogName(i), mtime |-> LogMtime(order, i), ok |-> TRUE,
                     data |-> LogText(i)]]

LogsInputs ==
    {Absent, Corrupt}
    \cup {File(LogListing(n, "mixed")) : n \in 0..MaxLogs}
    \cup {File(<<[name |-> <<"notes", ".txt">>, mtime |-> 900, ok |-> TRUE, data |-> <<"n", NL>>]>>
               \o LogListing(2, "asc")),
          File(LogListing(1, "asc")
               \o <<[name |-> <<"bad", ".log">>, mtime |-> 50, ok |-> FALSE, data |-> <<>>]>>)}

DocsInputs ==
    {Absent, File(<<>>),
     File(<<[name |-> <<"a", ".md">>, mtime |-> 1, ok |-> TRUE,
             data |-> <<"intro", NL, "#", "#", " ", "Sub", NL, "#", " ", " ", "Title", " ", NL,
                        "#", " ", "Other", NL>>],
            [name |-> <<"b", ".md">>, mtime |-> 2, ok |-> TRUE, data |-> <<"#", "NoSpace", NL>>],
            [name |-> <<"c", ".txt">>, mtime |-> 3, ok |-> TRUE, data |-> <<"#", " ", "Skip", NL>>]>>),
     File(<<[name |-> <<"a", ".md">>, mtime |-> 1, ok |-> TRUE, data |-> <<"#", " ", "T", NL>>],
            [name |-> <<"bad", ".md">>, mtime |-> 2, ok |-> FALSE, data |-> <<>>]>>)}

EmailInputs ==
    {Absent, Corrupt,
     File(<<"To:", " ", "<", "x@y", ">", NL, "From:", " ", "N", " ", "<", "a@b.com", ">", NL,
            "Body", "<", "z", ">", NL>>),
     File(<<"Subject:", " ", "hi", NL, "From:", " ", "N", NL, "<", "a@b.com", ">", NL>>)}

CardNumber == <<"4", "1", "1", "1", " ", "2", "2", "2", "2", "-", "3", "3", "3", "3", " ",
                "4", "4", "4", "4">>

CardInputs ==
    {Absent, Corrupt,
     File(<<"x", "1", "2", " ">> \o CardNumber \o <<" ", "9", "9", NL>>),
     File(<<"1", "2", "3", "4", " ", "5", "6", "7", "8", NL, "x">>)}

CommentsInputs ==
    {Absent, File(<<>>),
     File(<<NL, " ", "only", " ", NL, " ", NL>>),
     File(<<"a", " ", "b", NL, "c", NL>>),
     File(<<"a", " ", "b", NL, NL, "c", " ", "d", NL, " ", "b", " ", "a", " ", "e", NL>>)}

DbInputs ==
    {Absent, Corrupt, File(<<>>),
     File(<<[table |-> "tickets", rows |-> <<>>]>>),
     File(<<[table |-> "tickets",
             rows |-> <<[type |-> "Gold", units |-> 2, price |-> 5],
                        [type |-> "Silver", units |-> 4, price |-> 1],
                        [type |-> "Gold", units |-> 1, price |-> 3]>>]>>)}

Inputs(p) ==
    CASE p = dates_txt -> DatesInputs
      [] p = contacts_json -> ContactsInputs
      [] p = logs_dir -> LogsInputs
      [] p = docs_dir -> DocsInputs
      [] p = email_txt -> EmailInputs
      [] p = credit_card_png -> CardInputs
      [] p = comments_txt -> CommentsInputs
      [] p = ticket_sales_db -> DbInputs

\* the requests the clients send
Requested == TaskNames \cup {"unknown_task", ""}

(***************************************************************************)
(* The state machine: requests served one at a time.                       *)
(***************************************************************************)
\* the request threads of the interleaved specification (run_task and
\* get_task_output are plain functions, which the server runs on worker threads)
Threads == {"t1", "t2"}
Idle == [pc |-> "idle", task |-> "", data |-> <<>>]

EmptyRoot == [p \in Paths |-> Absent]

Init ==
    /\ fs = EmptyRoot
    /\ resp = NoResponse
    /\ last = [kind |-> "init", task |-> ""]
    /\ acc = <<>>
    /\ calls = <<>>
    /\ pre = EmptyRoot
    /\ thr = [t \in Threads |-> Idle]
    /\ torn = {}

\* Someone outside the program sets up a fresh data root holding one input
\* (or nothing).  The model follows one task's input at a time.
EnvSetup(p, v) ==
    /\ fs # [EmptyRoot EXCEPT ![p] = v]
    /\ fs' = [EmptyRoot EXCEPT ![p] = v]
    /\ pre' = fs'
    /\ resp' = NoResponse
    /\ last' = [kind |-> "env", task |-> ""]
    /\ acc' = <<>>
    /\ calls' = <<>>
    /\ UNCHANGED <<thr, torn>>

\* Someone outside the program replaces or removes the one input there is;
\* the output files stay as they are.
EnvPut(p, v) ==
    /\ fs[p].exists
    /\ \A q \in InputPaths \ {p} : ~fs[q].exists
    /\ v # fs[p]
    /\ fs' = IF p = docs_dir /\ ~(v.exists /\ v.ok)
             THEN [fs EXCEPT ![p] = v, ![docs_index_json] = Absent]
             ELSE [fs EXCEPT ![p] = v]
    /\ pre' = fs'
    /\ resp' = NoResponse
    /\ last' = [kind |-> "env", task |-> ""]
    /\ acc' = <<>>
    /\ calls' = <<>>
    /\ UNCHANGED <<thr, torn>>

\* POST /run?task=...
Run(task) ==
    \E r \in {run_task(task, fs)} :
       /\ fs' = ApplyAll(fs, r.exec.eff)
       /\ pre' = fs
       /\ resp' = r.resp
       /\ last' = [kind |-> "run", task |-> task]
       /\ acc' = r.exec.acc
       /\ calls' = r.calls
       /\ UNCHANGED <<thr, torn>>

\* GET /get?task=...
Get(task) ==
    \E r \in {get_task_output(task, fs)} :
       /\ fs' = ApplyAll(fs, r.exec.eff)
       /\ pre' = fs
       /\ resp' = r.resp
       /\ last' = [kind |-> "get", task |-> task]
       /\ acc' = r.exec.acc
       /\ calls' = <<>>
       /\ UNCHANGED <<thr, torn>>

Next ==
    \/ \E p \in InputPaths : \E v \in Inputs(p) : EnvSetup(p, v)
    \/ \E p \in InputPaths : \E v \in Inputs(p) : EnvPut(p, v)
    \/ \E task \in Requested : Run(task)
    \/ \E task \in Requested : Get(task)

Spec == Init /\ [][Next]_vars

(***************************************************************************)
(* The interleaved specification: requests served by concurrent threads.   *)
(* A run reads its inputs and computes, opens its output file (which       *)
(* truncates it), and writes when the file is closed; other threads and    *)
(* the environment act in between.                                         *)
(***************************************************************************)
\* the inputs the environment provides in the interleaved specification
ConcInputs(p) ==
    CASE p = dates_txt -> {Absent} \cup {v \in DatesInputs : Len(v.data) > 1}
      [] p = contacts_json -> {v \in ContactsInputs : json_ok(v.data, "[", "]")}
      [] p = logs_dir -> {File(LogListing(n, "mixed")) : n \in {0, 2}}
      [] p = docs_dir -> {v \in DocsInputs : v.exists}
      [] p = email_txt -> {v \in EmailInputs : v.ok}
      [] p = credit_card_png -> {v \in CardInputs : v.ok}
      [] p = comments_txt -> {v \in CommentsInputs : Len(v.data) > 5}
      [] p = ticket_sales_db -> {v \in DbInputs : v.data # <<>>}

AllIdle == \A t \in Threads : thr[t] = Idle

Opened(p) == {t \in Threads : thr[t].pc = "opened" /\ Join(DATA_DIR, output_map[thr[t].task]) = p}

ConcSetup(p, v) ==
    /\ AllIdle
    /\ fs # [EmptyRoot EXCEPT ![p] = v]
    /\ fs' = [EmptyRoot EXCEPT ![p] = v]
    /\ resp' = NoResponse
    /\ torn' = {}
    /\ UNCHANGED <<last, acc, calls, pre, thr>>

ConcPut(p, v) ==
    /\ fs[p].exists
    /\ \A q \in InputPaths \ {p} : ~fs[q].exists
    /\ v # fs[p]
    /\ v.exists /\ v.ok
    /\ fs' = [fs EXCEPT ![p] = v]
    /\ UNCHANGED <<resp, last, acc, calls, pre, thr, torn>>

\* run_task up to the open(output_file, "w") of the task function: the request
\* ends here when the task is unknown, raises, or writes nothing
Start(t, task) ==
    /\ thr[t] = Idle
    /\ \E r \in {run_task(task, fs)} :
       \E writes \in {SelectSeq(r.exec.eff, LAMBDA e : e.kind = "write")} :
       \E others \in {SelectSeq(r.exec.eff, LAMBDA e : e.kind # "write")} :
          IF writes = <<>>
          THEN /\ fs' = ApplyAll(fs, others)
               /\ resp' = r.resp
               /\ UNCHANGED <<thr, torn>>
          ELSE /\ fs' = Truncate(ApplyAll(fs, others), writes[1].path)
               /\ thr' = [thr EXCEPT ![t] = [pc |-> "opened", task |-> task,
                                              data |-> writes[1].data]]
               /\ torn' = IF Opened(writes[1].path) # {}
                          THEN torn \cup {writes[1].path}
                          ELSE torn \ {writes[1].path}
               /\ UNCHANGED resp
    /\ UNCHANGED <<last, acc, calls, pre>>

\* the end of the with block: the buffered data is written, the file closed,
\* and run_task returns
Finish(t) ==
    /\ thr[t].pc = "opened"
    /\ fs' = Flush(fs, Join(DATA_DIR, output_map[thr[t].task]), thr[t].data)
    /\ thr' = [thr EXCEPT ![t] = Idle]
    /\ resp' = Response(200, "success", "", <<>>)
    /\ UNCHANGED <<last, acc, calls, pre, torn>>

\* get_task_output on a thread: it opens no file
ConcGet(t, task) ==
    /\ thr[t] = Idle
    /\ fs' = ApplyAll(fs, get_task_output(task, fs).exec.eff)
    /\ resp' = get_task_output(task, fs).resp
    /\ UNCHANGED <<last, acc, calls, pre, thr, torn>>

ConcNext ==
    \/ \E p \in InputPaths : \E v \in ConcInputs(p) : ConcSetup(p, v)
    \/ \E p \in InputPaths : \E v \in ConcInputs(p) : ConcPut(p, v)
    \/ \E t \in Threads : \E task \in Requested : Start(t, task)
    \/ \E t \in Threads : Finish(t)
    \/ \E t \in Threads : \E task \in Requested : ConcGet(t, task)

ConcSpec == Init /\ [][ConcNext]_vars

(***************************************************************************)
(* Properties.                                                             *)
(***************************************************************************)
IsRun == last.kind = "run"
IsGet == last.kind = "get"
Registered == last.task \in TaskNames
OutputOf(task) == Join(DATA_DIR, output_map[task])
Success == Response(200, "success", "", <<>>)
WritesOf(e) == SelectSeq(e.eff, LAMBDA x : x.kind = "write")

\* C1: for a registered task whose output file exists and is readable, get
\* returns {"output": <the file's content>}; it answers 500 only when the
\* file is absent or unreadable.
C1_GetReturnsFileContent ==
    (IsGet /\ Registered) =>
        LET p == OutputOf(last.task)
        IN IF pre[p].exists /\ pre[p].ok
           THEN resp = Response(200, "", "", pre[p].data)
           ELSE resp.code = 500

\* C2: for a task name outside the eight registered ones, run and get both
\* answer 400 "Invalid task", call no task function, and access no file: no
\* guard call, no read, listing, stat or write, and the data root is unchanged.
C2_UnknownTaskTouchesNothing ==
    ((IsRun \/ IsGet) /\ ~Registered) =>
        /\ resp = Response(400, "", "Invalid task", <<>>)
        /\ acc = <<>>
        /\ calls = <<>>
        /\ fs = pre

C2_Witness ==
    /\ IsRun /\ last.task = "unknown_task"
    /\ resp.code = 400
    /\ pre[comments_txt].exists /\ pre[comments_similar_txt].exists

\* C3: for a registered task, run calls exactly that task's function, once;
\* it answers {"status": "success"} if and only if the function returns
\* without raising, and otherwise answers 500 with the exception's message.
C3_RunReportsOutcome ==
    (IsRun /\ Registered) =>
        LET e == task_map(last.task, pre)
        IN /\ calls = <<last.task>>
           /\ (resp = Success) <=> (e.exc = NoExc)
           /\ (e.exc # NoExc) => resp = Response(500, "", e.exc, <<>>)

C3_Witness ==
    /\ IsRun /\ last.task = "sort_contacts"
    /\ pre[contacts_json].exists
    /\ resp = Response(500, "", "JSONDecodeError", <<>>)

\* C4: every path a request touches (read, write, listing, stat, existence
\* test, database connection) starts with the data root prefix and was
\* passed to the path guard earlier in the same request.
C4_EveryAccessGuarded ==
    \A i \in 1..Len(acc) :
        acc[i].op # "guard" =>
            /\ StartsWith(acc[i].path, DATA_DIR)
            /\ \E j \in 1..(i - 1) : acc[j] = Guard(acc[i].path)

\* C5 as stated: after every successful run of a registered task the task's
\* output file exists and holds exactly the result computed from the inputs
\* of that run.
C5_Original ==
    (IsRun /\ Registered /\ resp = Success) =>
        LET w == WritesOf(task_map(last.task, pre))
        IN /\ fs[OutputOf(last.task)].exists
           /\ \E i \in 1..Len(w) : fs[OutputOf(last.task)] = File(w[i].data)

FewerThanTwoComments(f) ==
    Len(NonEmptyStripped(ReadLines(f[comments_txt].data))) < 2

\* C5 as amended: after a successful run of a registered task, other than a
\* run of similar_comments over fewer than 2 non-empty comment lines, the
\* task's output file exists and holds exactly the result computed from the
\* inputs of that run, nothing of its earlier content.
C5_OutputOverwritten ==
    (IsRun /\ Registered /\ resp = Success
       /\ ~(last.task = "similar_comments" /\ FewerThanTwoComments(pre))) =>
        LET w == WritesOf(task_map(last.task, pre))
        IN /\ Len(w) = 1
           /\ w[1].path = OutputOf(last.task)
           /\ fs[OutputOf(last.task)] = File(w[1].data)

\* a successful run that replaced a longer, older result
C5_Witness ==
    /\ IsRun /\ last.task = "recent_logs" /\ resp = Success
    /\ pre[logs_recent_txt].exists
    /\ Len(pre[logs_recent_txt].data) > Len(fs[logs_recent_txt].data)

\* C7: the fallbacks.  count_wednesdays without a dates file succeeds and
\* writes "0"; email_sender without an email file, or with one that has no
\* From: ... <addr>, succeeds and writes an empty line; extract_credit_card
\* without an image, or with one that shows no card number, succeeds and
\* writes an empty line.
C7_Fallbacks ==
    /\ (IsRun /\ last.task = "count_wednesdays" /\ ~pre[dates_txt].exists) =>
           (resp = Success /\ fs[dates_wednesdays_txt] = File(<<"0", NL>>))
    /\ (IsRun /\ last.task = "email_sender"
          /\ (~pre[email_txt].exists
              \/ (pre[email_txt].ok /\ email_search(Strip(pre[email_txt].data)) = <<>>))) =>
           (resp = Success /\ fs[email_sender_txt] = File(<<NL>>))
    /\ (IsRun /\ last.task = "extract_credit_card"
          /\ (~pre[credit_card_png].exists
              \/ (pre[credit_card_png].ok /\ card_search(pre[credit_card_png].data) = <<>>))) =>
           (resp = Success /\ fs[credit_card_txt] = File(<<NL>>))

\* C8: a run of similar_comments over a comments file with fewer than 2
\* non-empty lines succeeds, opens no file for writing, and leaves every
\* file, its output file included, as it was.
C8_FewCommentsWriteNothing ==
    (IsRun /\ last.task = "similar_comments"
       /\ pre[comments_txt].exists /\ pre[comments_txt].ok /\ FewerThanTwoComments(pre)) =>
        /\ resp = Success
        /\ fs = pre
        /\ \A i \in 1..Len(acc) : acc[i].op # "write"

\* the output of an earlier run is kept
C8_Witness ==
    /\ IsRun /\ last.task = "similar_comments" /\ resp = Success
    /\ pre[comments_txt].exists /\ FewerThanTwoComments(pre)
    /\ fs[comments_similar_txt].exists /\ fs[comments_similar_txt].data # <<>>

\* C9: over a logs directory with N readable .log files of distinct
\* modification times, recent_logs writes exactly min(N, 10) lines, line i
\* the stripped first line of the i-th most recently modified file.
C9_RecentLogsLines ==
    LET logs == Filtered(pre[logs_dir].data, ".log")
        N == Len(logs)
        lines == ReadLines(fs[logs_recent_txt].data)
    IN (/\ IsRun /\ last.task = "recent_logs"
        /\ pre[logs_dir].exists /\ pre[logs_dir].ok
        /\ \A i \in 1..N : logs[i].ok
        /\ \A i, j \in 1..N : i # j => logs[i].mtime # logs[j].mtime) =>
           /\ resp = Success
           /\ Len(lines) = Min(N, 10)
           /\ \A i \in 1..Len(lines) :
                  \E k \in 1..N :
                      /\ Cardinality({j \in 1..N : logs[j].mtime > logs[k].mtime}) = i - 1
                      /\ Strip(lines[i]) = Strip(ReadLine(logs[k].data))

\* C10: a run that answers 500 leaves every file as it was, and no run,
\* successful or not, changes an input.
C10_FailedRunChangesNothing ==
    /\ (IsRun /\ resp.code = 500) => fs = pre
    /\ IsRun => \A p \in InputPaths : fs[p] = pre[p]

(***************************************************************************)
(* Properties of the interleaved specification.                            *)
(***************************************************************************)
\* the contents a single invocation of the task writes in full, over the
\* inputs of the model
WrittenBy(task) ==
    UNION {UNION {LET w == WritesOf(task_map(task, [EmptyRoot EXCEPT ![q] = v]))
                  IN {w[i].data : i \in 1..Len(w)} :
                     v \in Inputs(q)} : q \in InputPaths}

Written == [task \in TaskNames |-> WrittenBy(task)]

CompleteContents(p) == Written[CHOOSE task \in TaskNames : OutputOf(task) = p]

=============================================================================
